---- MODULE Spec2Model ----
(***************************************************************************)
(* A model of the function abstraction layer of yaglm: the Func contract,  *)
(* Zero, Sum, EntrywiseFunc (src/yaglm/opt/base.py), the Huber regression  *)
(* losses (src/ya_glm/opt/huber_regression.py) and the verification        *)
(* engine check_grad_impl / check_prox_impl / numeric_prox.                *)
(*                                                                         *)
(* Numbers are exact rationals <<num, den>> (den > 0, lowest terms); the   *)
(* code computes in IEEE doubles, so rounding is not modelled.  An ndarray *)
(* is a record [shape, data] with data in row-major order; a Python scalar *)
(* has shape <<>>.  A call returns a record                                *)
(*     [exc, val, flag, lip, self, x]                                      *)
(* exc  : "" or the name of the exception raised,                          *)
(* val  : the array/scalar returned, flag : a returned bool,               *)
(* lip  : a returned grad_lip (None or a number),                          *)
(* self : the function object after the call,                              *)
(* x    : the caller's trial-point array after the call (the callee gets   *)
(*        an alias of it whenever the code passes np.array(x, copy=False)).*)
(***************************************************************************)
EXTENDS Integers, Sequences, FiniteSets, TLC

VARIABLES funcs, x, ret, last,
          pc, which, behavior, force_no_grad, values, idx, errors, passes,
          warnings, outcome

vars == <<funcs, x, ret, last,
          pc, which, behavior, force_no_grad, values, idx, errors, passes,
          warnings, outcome>>

funcVars == <<funcs, x, ret, last>>

checkVars == <<pc, which, behavior, force_no_grad, values, idx, errors, passes,
               warnings, outcome>>

(***************************************************************************)
(* Exact rational arithmetic.                                              *)
(***************************************************************************)
RECURSIVE GCD(_, _)
GCD(a, b) == IF b = 0 THEN a ELSE GCD(b, a % b)

IAbs(n) == IF n < 0 THEN -n ELSE n

Rat(n, d) ==
    LET g == GCD(IAbs(n), IAbs(d))
        s == IF d < 0 THEN -1 ELSE 1
    IN  <<(s * n) \div g, (s * d) \div g>>

QInt(n) == <<n, 1>>

QAdd(a, b) == Rat(a[1] * b[2] + b[1] * a[2], a[2] * b[2])

QNeg(a) == <<-a[1], a[2]>>

QSub(a, b) == QAdd(a, QNeg(b))

QMul(a, b) == Rat(a[1] * b[1], a[2] * b[2])

\* a / b for b # 0
QDiv(a, b) == Rat(a[1] * b[2], a[2] * b[1])

QLe(a, b) == a[1] * b[2] <= b[1] * a[2]

\* abs(x)
QAbs(a) == <<IAbs(a[1]), a[2]>>

\* np.sign(x)
QSign(a) == IF a[1] > 0 THEN QInt(1) ELSE IF a[1] < 0 THEN QInt(-1) ELSE QInt(0)

RECURSIVE QSum(_)
QSum(s) == IF s = <<>> THEN QInt(0) ELSE QAdd(Head(s), QSum(Tail(s)))

(***************************************************************************)
(* numpy arrays: shape, row-major data, broadcasting.                      *)
(***************************************************************************)
RECURSIVE Prod(_)
Prod(s) == IF s = <<>> THEN 1 ELSE Head(s) * Prod(Tail(s))

RECURSIVE ISum(_)
ISum(s) == IF s = <<>> THEN 0 ELSE Head(s) + ISum(Tail(s))

IMax(a, b) == IF a >= b THEN a ELSE b

\* (s \o <<>> is s, held as an explicit tuple)
Arr(shape, data) == [shape |-> shape \o <<>>, data |-> data \o <<>>]

\* a Python / numpy scalar
Scalar(q) == Arr(<<>>, <<q>>)

NoArr == [shape |-> <<>>, data |-> <<>>]

\* np.zeros(shape)
zeros(shape) == Arr(shape, [k \in 1..Prod(shape) |-> QInt(0)])

\* np.zeros_like(a)
zeros_like(a) == Arr(a.shape, [k \in 1..Len(a.data) |-> QInt(0)])

\* a.reshape(shape): same data, new shape; ValueError when the sizes differ
CanReshape(a, shape) == Prod(shape) = Len(a.data)

reshape(a, shape) == Arr(shape, a.data)

\* the shape s padded on the left with 1s to rank r
Pad(s, r) == [j \in 1..r |-> IF j <= r - Len(s) THEN 1 ELSE s[j - (r - Len(s))]]

\* numpy's broadcasting rule on two shapes
Compatible(s, t) ==
    LET r == IMax(Len(s), Len(t))
    IN  \A j \in 1..r :
            \/ Pad(s, r)[j] = Pad(t, r)[j]
            \/ Pad(s, r)[j] = 1
            \/ Pad(t, r)[j] = 1

BShape(s, t) ==
    LET r == IMax(Len(s), Len(t))
    IN  [j \in 1..r |-> IF Pad(s, r)[j] = 1 THEN Pad(t, r)[j] ELSE Pad(s, r)[j]]

Stride(s, j) == Prod(SubSeq(s, j + 1, Len(s)))

\* the j-th coordinate of the 0-based flat index k in shape s
Coord(k, s, j) == (k \div Stride(s, j)) % s[j]

\* the 1-based position, in an operand of shape p, of the element that is
\* broadcast to the 0-based flat index k of the result shape s
Src(k, s, p) ==
    LET pp == Pad(p, Len(s))
    IN  1 + ISum([j \in 1..Len(s) |->
                    IF pp[j] = 1 THEN 0 ELSE Coord(k, s, j) * Stride(pp, j)])

\* a - b with broadcasting (shapes compatible)
ASub(a, b) ==
    LET s == BShape(a.shape, b.shape)
    IN  Arr(s, [k \in 1..Prod(s) |->
                  QSub(a.data[Src(k - 1, s, a.shape)], b.data[Src(k - 1, s, b.shape)])])

\* a + b with broadcasting (shapes compatible)
AAdd(a, b) ==
    LET s == BShape(a.shape, b.shape)
    IN  Arr(s, [k \in 1..Prod(s) |->
                  QAdd(a.data[Src(k - 1, s, a.shape)], b.data[Src(k - 1, s, b.shape)])])

\* c * a for a scalar c
AScale(c, a) == Arr(a.shape, [k \in 1..Len(a.data) |-> QMul(c, a.data[k])])

\* a.sum()
ATotal(a) == QSum(a.data)

\* np.mean(a)
AMean(a) == QDiv(QSum(a.data), QInt(Len(a.data)))

\* entry (i, j) of a 2-D array, 1-based
At2(a, i, j) == a.data[(i - 1) * a.shape[2] + j]

\* X.T @ g for X of shape (n, p) and g of shape (n,) or (n, r)
CanMatTDot(X, g) == Len(g.shape) \in {1, 2} /\ g.shape[1] = X.shape[1]

MatTDot(X, g) ==
    LET n == X.shape[1]
        p == X.shape[2]
    IN  IF Len(g.shape) = 1
        THEN Arr(<<p>>, [j \in 1..p |->
                 QSum([i \in 1..n |-> QMul(At2(X, i, j), g.data[i])])])
        ELSE LET r == g.shape[2]
             IN  Arr(<<p, r>>, [k \in 1..(p * r) |->
                     LET j == ((k - 1) \div r) + 1
                         c == ((k - 1) % r) + 1
                     IN  QSum([i \in 1..n |-> QMul(At2(X, i, j), At2(g, i, c))])])

\* g.mean(axis=0) of a 2-D array: one mean per column
MeanAxis0(g) ==
    LET n == g.shape[1]
        r == g.shape[2]
    IN  Arr(<<r>>, [c \in 1..r |->
            QDiv(QSum([i \in 1..n |-> At2(g, i, c)]), QInt(n))])

\* np.concatenate([[s], v]) for a scalar s and a 1-D array v
ConcatScalar(s, v) == Arr(<<Len(v.data) + 1>>, <<s>> \o v.data)

\* np.vstack([row, m]) for a 1-D row of length r and a 2-D array m of shape (p, r)
CanVStack(row, m) == Len(m.shape) = 2 /\ Len(row.shape) = 1 /\ row.shape[1] = m.shape[2]

VStack(row, m) == Arr(<<m.shape[1] + 1, m.shape[2]>>, row.data \o m.data)

(***************************************************************************)
(* Python values: None, call results, function objects.                    *)
(***************************************************************************)
None == <<>>

Out(exc, val, flag, lip, self, xx) ==
    [exc |-> exc, val |-> val, flag |-> flag, lip |-> lip, self |-> self, x |-> xx]

\* return val
Ok(val, self, xx) == Out("", val, FALSE, None, self, xx)

\* return a bool
OkFlag(b, self, xx) == Out("", NoArr, b, None, self, xx)

\* return a grad_lip value (None or a number)
OkLip(l, self, xx) == Out("", NoArr, FALSE, l, self, xx)

\* raise exc
Raise(exc, self, xx) == Out(exc, NoArr, FALSE, None, self, xx)

\* an instance: its class and its attributes (has_grad_lip: whether the
\* attribute _grad_lip is set, as hasattr(self, '_grad_lip') reads it)
Obj(cls, X, y, knot, fit_intercept, coef_shape, has_grad_lip, grad_lip) ==
    [cls |-> cls, X |-> X, y |-> y, knot |-> knot, fit_intercept |-> fit_intercept,
     coef_shape |-> coef_shape, has_grad_lip |-> has_grad_lip, grad_lip |-> grad_lip]

\* an instance of a class without __init__ : no attributes
Bare(cls) == Obj(cls, NoArr, NoArr, QInt(0), FALSE, <<>>, FALSE, None)

(***************************************************************************)
(* Scalar kernels (huber_regression.py).                                   *)
(***************************************************************************)
huber_eval_1d(z, knot) ==
    LET x_abs == QAbs(z)
    IN  IF QLe(x_abs, knot)
        THEN QMul(<<1, 2>>, QMul(z, z))
        ELSE QMul(knot, QSub(x_abs, QMul(<<1, 2>>, knot)))

huber_grad_1d(z, knot) ==
    IF QLe(QAbs(z), knot) THEN z ELSE QMul(knot, QSign(z))

\* safe_vectorize(f): f applied entrywise, the shape kept
vec_huber_eval(a, knot) ==
    Arr(a.shape, [k \in 1..Len(a.data) |-> huber_eval_1d(a.data[k], knot)])

vec_huber_grad(a, knot) ==
    Arr(a.shape, [k \in 1..Len(a.data) |-> huber_grad_1d(a.data[k], knot)])

huber_eval(a, knot) == ATotal(vec_huber_eval(a, knot))

huber_grad(a, knot) == vec_huber_grad(a, knot)

(***************************************************************************)
(* Collaborators outside the source files, modelled from the               *)
(* specification: the linear predictors and the Lipschitz estimate.        *)
(***************************************************************************)
\* whether coef is a coefficient vector for X: 1-D, n_features (+1) long
CoefFits(X, coef, fit_intercept) ==
    /\ Len(X.shape) = 2
    /\ Len(coef.shape) = 1
    /\ coef.shape[1] = X.shape[2] + (IF fit_intercept THEN 1 ELSE 0)

\* the linear prediction X @ beta + b, b = coef[0] when fit_intercept
safe_data_mat_coef_dot(X, coef, fit_intercept) ==
    LET off == IF fit_intercept THEN 1 ELSE 0
    IN  Arr(<<X.shape[1]>>, [i \in 1..X.shape[1] |->
            QAdd(QSum([j \in 1..X.shape[2] |-> QMul(At2(X, i, j), coef.data[j + off])]),
                 IF fit_intercept THEN coef.data[1] ELSE QInt(0))])

\* whether coef is a coefficient matrix for X: (n_features (+1)) x responses
CoefMatFits(X, coef, fit_intercept) ==
    /\ Len(X.shape) = 2
    /\ Len(coef.shape) = 2
    /\ coef.shape[1] = X.shape[2] + (IF fit_intercept THEN 1 ELSE 0)

\* the linear prediction X @ B + b, b = coef[0, :] when fit_intercept
safe_data_mat_coef_mat_dot(X, coef, fit_intercept) ==
    LET off == IF fit_intercept THEN 1 ELSE 0
        n == X.shape[1]
        r == coef.shape[2]
    IN  Arr(<<n, r>>, [k \in 1..(n * r) |->
            LET i == ((k - 1) \div r) + 1
                c == ((k - 1) % r) + 1
            IN  QAdd(QSum([j \in 1..X.shape[2] |->
                             QMul(At2(X, i, j), At2(coef, j + off, c))]),
                     IF fit_intercept THEN At2(coef, 1, c) ELSE QInt(0))])

\* get_lin_reg_lip(X, fit_intercept): a black box over X alone that returns
\* a nonnegative scalar; the set of values it may return
LipValues == {QInt(1), QInt(2)}

get_lin_reg_lip(X, fit_intercept) == LipValues

(***************************************************************************)
(* class Func (base.py): the private rules and the capability queries.     *)
(***************************************************************************)
Func__eval(self, xx) == Raise("NotImplementedError", self, xx)

Func__grad(self, xx) == Raise("NotImplementedError", self, xx)

Func__prox(self, xx, step) == Raise("NotImplementedError", self, xx)

Func_grad_lip(self) ==
    IF self.has_grad_lip THEN OkLip(self.grad_lip, self, NoArr)
    ELSE OkLip(None, self, NoArr)

Func_is_smooth(self) == Raise("NotImplementedError", self, NoArr)

Func_is_proximable(self) == Raise("NotImplementedError", self, NoArr)

(***************************************************************************)
(* class Zero.                                                             *)
(***************************************************************************)
Zero__eval(self, xx) == Ok(Scalar(QInt(0)), self, xx)

\* a gradient written into the argument instead of a fresh array
Zero__grad_inplace(self, xx) == Ok(zeros_like(xx), self, zeros_like(xx))

Zero__grad(self, xx) == Ok(zeros_like(xx), self, xx)

Zero__prox(self, xx, step) == Ok(xx, self, xx)

Zero_is_smooth(self) == OkFlag(TRUE, self, NoArr)

Zero_is_proximable(self) == OkFlag(TRUE, self, NoArr)

\* a Zero that reports no bound
Zero_grad_lip_unknown(self) == OkLip(None, self, NoArr)

Zero_grad_lip(self) == OkLip(QInt(0), self, NoArr)

(***************************************************************************)
(* class HuberRegLoss.                                                     *)
(***************************************************************************)
\* __init__ with the Lipschitz estimate l drawn from get_lin_reg_lip
HuberRegLoss__init__(X, y, knot, fit_intercept, lip, l) ==
    Ok(NoArr,
       Obj("HuberRegLoss", X, y, knot, fit_intercept, <<>>, TRUE,
           IF lip = None THEN l ELSE lip),
       NoArr)

HuberRegLoss__eval(self, xx) ==
    IF ~CoefFits(self.X, xx, self.fit_intercept) THEN Raise("ValueError", self, xx)
    ELSE LET pred == safe_data_mat_coef_dot(self.X, xx, self.fit_intercept)
         IN  IF ~Compatible(pred.shape, self.y.shape) THEN Raise("ValueError", self, xx)
             ELSE Ok(Scalar(QMul(Rat(1, self.X.shape[1]),
                                 huber_eval(ASub(pred, self.y), self.knot))),
                     self, xx)

\* the gradient of the residual taken as y - pred
HuberRegLoss__grad_flipped(self, xx) ==
    IF ~CoefFits(self.X, xx, self.fit_intercept) THEN Raise("ValueError", self, xx)
    ELSE LET pred == safe_data_mat_coef_dot(self.X, xx, self.fit_intercept)
         IN  IF ~Compatible(pred.shape, self.y.shape) THEN Raise("ValueError", self, xx)
             ELSE LET resid == ASub(self.y, pred)
                      g == huber_grad(resid, self.knot)
                  IN  IF ~CanMatTDot(self.X, g) THEN Raise("ValueError", self, xx)
                      ELSE LET coef_grad == AScale(Rat(1, self.X.shape[1]),
                                                   MatTDot(self.X, g))
                           IN  IF self.fit_intercept
                               THEN IF Len(coef_grad.shape) # 1
                                    THEN Raise("ValueError", self, xx)
                                    ELSE Ok(ConcatScalar(AMean(g), coef_grad), self, xx)
                               ELSE Ok(coef_grad, self, xx)

HuberRegLoss__grad(self, xx) ==
    IF ~CoefFits(self.X, xx, self.fit_intercept) THEN Raise("ValueError", self, xx)
    ELSE LET pred == safe_data_mat_coef_dot(self.X, xx, self.fit_intercept)
         IN  IF ~Compatible(pred.shape, self.y.shape) THEN Raise("ValueError", self, xx)
             ELSE LET resid == ASub(pred, self.y)
                      g == huber_grad(resid, self.knot)
                  IN  IF ~CanMatTDot(self.X, g) THEN Raise("ValueError", self, xx)
                      ELSE LET coef_grad == AScale(Rat(1, self.X.shape[1]),
                                                   MatTDot(self.X, g))
                           IN  IF self.fit_intercept
                               THEN IF Len(coef_grad.shape) # 1
                                    THEN Raise("ValueError", self, xx)
                                    ELSE Ok(ConcatScalar(AMean(g), coef_grad), self, xx)
                               ELSE Ok(coef_grad, self, xx)

(***************************************************************************)
(* class HuberRegMultiRespLoss.                                            *)
(***************************************************************************)
HuberRegMultiRespLoss__init__(X, y, knot, fit_intercept, lip, l) ==
    IF Len(y.shape) < 2 \/ Len(X.shape) < 2 THEN Raise("IndexError", Bare("Func"), NoArr)
    ELSE Ok(NoArr,
            Obj("HuberRegMultiRespLoss", X, y, knot, fit_intercept,
                IF fit_intercept THEN <<X.shape[2] + 1, y.shape[2]>>
                ELSE <<X.shape[2], y.shape[2]>>,
                TRUE, IF lip = None THEN l ELSE lip),
            NoArr)

HuberRegMultiRespLoss__eval(self, xx) ==
    IF ~CanReshape(xx, self.coef_shape) THEN Raise("ValueError", self, xx)
    ELSE LET pred == safe_data_mat_coef_mat_dot(self.X, reshape(xx, self.coef_shape),
                                                self.fit_intercept)
         IN  IF ~Compatible(pred.shape, self.y.shape) THEN Raise("ValueError", self, xx)
             ELSE LET resid == ASub(pred, self.y)
                  IN  Ok(Scalar(QMul(Rat(1, self.X.shape[1]),
                                     huber_eval(reshape(resid, <<Len(resid.data)>>),
                                                self.knot))),
                         self, xx)

HuberRegMultiRespLoss__grad(self, xx) ==
    IF ~CanReshape(xx, self.coef_shape) THEN Raise("ValueError", self, xx)
    ELSE LET pred == safe_data_mat_coef_mat_dot(self.X, reshape(xx, self.coef_shape),
                                                self.fit_intercept)
         IN  IF ~Compatible(pred.shape, self.y.shape) THEN Raise("ValueError", self, xx)
             ELSE LET resid == ASub(pred, self.y)
                      g == huber_grad(resid, self.knot)
                  IN  IF ~CanMatTDot(self.X, g) THEN Raise("ValueError", self, xx)
                      ELSE LET coef_grad == AScale(Rat(1, self.X.shape[1]),
                                                   MatTDot(self.X, g))
                           IN  IF self.fit_intercept
                               THEN LET intercept_grad == MeanAxis0(g)
                                    IN  IF ~CanVStack(intercept_grad, coef_grad)
                                        THEN Raise("ValueError", self, xx)
                                        ELSE Ok(VStack(intercept_grad, coef_grad), self, xx)
                               ELSE Ok(coef_grad, self, xx)

(***************************************************************************)
(* Method resolution: the private rule of an instance's class, and the     *)
(* public methods of Func and EntrywiseFunc that call it.                  *)
(***************************************************************************)
Rule_eval(self, xx) ==
    CASE self.cls = "Zero" -> Zero__eval(self, xx)
      [] self.cls = "HuberRegLoss" -> HuberRegLoss__eval(self, xx)
      [] self.cls = "HuberRegMultiRespLoss" -> HuberRegMultiRespLoss__eval(self, xx)
      [] OTHER -> Func__eval(self, xx)

Rule_grad(self, xx) ==
    CASE self.cls = "Zero" -> Zero__grad(self, xx)
      [] self.cls = "HuberRegLoss" -> HuberRegLoss__grad(self, xx)
      [] self.cls = "HuberRegMultiRespLoss" -> HuberRegMultiRespLoss__grad(self, xx)
      [] OTHER -> Func__grad(self, xx)

Rule_prox(self, xx, step) ==
    CASE self.cls = "Zero" -> Zero__prox(self, xx, step)
      [] OTHER -> Func__prox(self, xx, step)

\* Func.eval: the rule gets np.array(x, copy=False), the caller's array itself
Func_eval(self, xx) == Rule_eval(self, xx)

Func_grad(self, xx) == Rule_grad(self, xx)

\* Func.prox: the rule gets np.array(x), a copy, so the caller's array is
\* out of its reach
Func_prox(self, xx, step) ==
    LET r == Rule_prox(self, xx, step)
    IN  [r EXCEPT !.x = xx]

\* EntrywiseFunc: the rule gets x.reshape(-1), a view of the caller's array
EntrywiseFunc_eval(self, xx) ==
    LET r == Rule_eval(self, reshape(xx, <<Len(xx.data)>>))
    IN  [r EXCEPT !.x = reshape(r.x, xx.shape)]

EntrywiseFunc_grad(self, xx) ==
    LET r == Rule_grad(self, reshape(xx, <<Len(xx.data)>>))
    IN  IF r.exc # "" THEN [r EXCEPT !.x = reshape(r.x, xx.shape)]
        ELSE IF ~CanReshape(r.val, xx.shape)
             THEN Raise("ValueError", r.self, reshape(r.x, xx.shape))
             ELSE Ok(reshape(r.val, xx.shape), r.self, reshape(r.x, xx.shape))

EntrywiseFunc_prox(self, xx, step) ==
    LET r == Rule_prox(self, reshape(xx, <<Len(xx.data)>>), step)
    IN  IF r.exc # "" THEN [r EXCEPT !.x = reshape(r.x, xx.shape)]
        ELSE IF ~CanReshape(r.val, xx.shape)
             THEN Raise("ValueError", r.self, reshape(r.x, xx.shape))
             ELSE Ok(reshape(r.val, xx.shape), r.self, reshape(r.x, xx.shape))

\* self.prox(x, step), resolved on the class of self
Call_prox(self, xx, step) ==
    IF self.cls = "EntrywiseFunc" THEN EntrywiseFunc_prox(self, xx, step)
    ELSE Func_prox(self, xx, step)

\* Func.conj_prox: x - step * self.prox(x / step, 1 / step), step # 0
Func_conj_prox(self, xx, step) ==
    LET r == Call_prox(self, AScale(QDiv(QInt(1), step), xx), QDiv(QInt(1), step))
    IN  IF r.exc # "" THEN Raise(r.exc, r.self, xx)
        ELSE IF ~Compatible(xx.shape, r.val.shape) THEN Raise("ValueError", r.self, xx)
             ELSE Ok(ASub(xx, AScale(step, r.val)), r.self, xx)

\* f.<op> for a component f that is not a Sum
LeafCall(op, self, xx, step) ==
    CASE op = "eval" ->
            IF self.cls = "EntrywiseFunc" THEN EntrywiseFunc_eval(self, xx)
            ELSE Func_eval(self, xx)
      [] op = "grad" ->
            IF self.cls = "EntrywiseFunc" THEN EntrywiseFunc_grad(self, xx)
            ELSE Func_grad(self, xx)
      [] op = "prox" -> Call_prox(self, xx, step)
      [] op = "conj_prox" -> Func_conj_prox(self, xx, step)
      [] op = "grad_lip" ->
            IF self.cls = "Zero" THEN Zero_grad_lip(self) ELSE Func_grad_lip(self)
      [] op = "is_smooth" ->
            IF self.cls = "Zero" THEN Zero_is_smooth(self) ELSE Func_is_smooth(self)
      [] op = "is_proximable" ->
            IF self.cls = "Zero" THEN Zero_is_proximable(self)
            ELSE Func_is_proximable(self)

(***************************************************************************)
(* class Sum.                                                              *)
(***************************************************************************)
SumObj(fs) == [cls |-> "Sum", funcs |-> fs]

\* sum(f.<op>(x) for f in self.funcs): Python's sum starts from the int 0 and
\* adds the terms in order; an exception of a term ends it
RECURSIVE SumLoop(_, _, _, _, _)

\* one turn of the loop: r is the outcome of the i-th term
SumStep(op, fs, i, acc, r) ==
    IF r.exc # "" THEN Raise(r.exc, SumObj([fs EXCEPT ![i] = r.self]), r.x)
    ELSE IF ~Compatible(acc.shape, r.val.shape)
         THEN Raise("ValueError", SumObj([fs EXCEPT ![i] = r.self]), r.x)
         ELSE SumLoop(op, [fs EXCEPT ![i] = r.self], i + 1, AAdd(acc, r.val), r.x)

SumLoop(op, fs, i, acc, xx) ==
    IF i > Len(fs) THEN Ok(acc, SumObj(fs), xx)
    ELSE SumStep(op, fs, i, acc, LeafCall(op, fs[i], xx, QInt(1)))

Sum_eval(self, xx) == SumLoop("eval", self.funcs, 1, Scalar(QInt(0)), xx)

Sum_grad(self, xx) == SumLoop("grad", self.funcs, 1, Scalar(QInt(0)), xx)

\* the loop of Sum.grad_lip from component i on, lip accumulated so far
RECURSIVE GradLipLoop(_, _, _)

\* one turn of the loop: flip is the bound of the i-th component
GradLipStep(fs, i, lip, flip) ==
    IF flip = None THEN None ELSE GradLipLoop(fs, i + 1, QAdd(lip, flip))

GradLipLoop(fs, i, lip) ==
    IF i > Len(fs) THEN lip
    ELSE GradLipStep(fs, i, lip, LeafCall("grad_lip", fs[i], NoArr, QInt(1)).lip)

\* a loop that stops at an unknown bound and keeps what it has summed
RECURSIVE GradLipLoopPartial(_, _, _)

GradLipStepPartial(fs, i, lip, flip) ==
    IF flip = None THEN lip ELSE GradLipLoopPartial(fs, i + 1, QAdd(lip, flip))

GradLipLoopPartial(fs, i, lip) ==
    IF i > Len(fs) THEN lip
    ELSE GradLipStepPartial(fs, i, lip, LeafCall("grad_lip", fs[i], NoArr, QInt(1)).lip)

Sum_grad_lip_partial(self) == OkLip(GradLipLoopPartial(self.funcs, 1, QInt(0)), self, NoArr)

Sum_grad_lip(self) == OkLip(GradLipLoop(self.funcs, 1, QInt(0)), self, NoArr)

\* all(f.is_smooth for f in self.funcs): stops at the first False; an
\* exception of a component's property ends it
RECURSIVE AllSmoothLoop(_, _)

\* one turn of the loop: r is the outcome of the i-th component's property
AllSmoothStep(fs, i, r) ==
    IF r.exc # "" THEN Raise(r.exc, SumObj(fs), NoArr)
    ELSE IF ~r.flag THEN OkFlag(FALSE, SumObj(fs), NoArr)
         ELSE AllSmoothLoop(fs, i + 1)

AllSmoothLoop(fs, i) ==
    IF i > Len(fs) THEN OkFlag(TRUE, SumObj(fs), NoArr)
    ELSE AllSmoothStep(fs, i, LeafCall("is_smooth", fs[i], NoArr, QInt(1)))

Sum_is_smooth(self) == AllSmoothLoop(self.funcs, 1)

Sum_is_proximable(self) == OkFlag(FALSE, self, NoArr)

\* obj.<op> for the Sum
SumCall(op, self, xx, step) ==
    CASE op = "eval" -> Sum_eval(self, xx)
      [] op = "grad" -> Sum_grad(self, xx)
      [] op = "prox" -> Call_prox(self, xx, step)
      [] op = "conj_prox" -> Func_conj_prox(self, xx, step)
      [] op = "grad_lip" -> Sum_grad_lip(self)
      [] op = "is_smooth" -> Sum_is_smooth(self)
      [] op = "is_proximable" -> Sum_is_proximable(self)

(***************************************************************************)
(* The caller's session: it builds function objects, collects them in the  *)
(* list the Sum refers to, changes a component's bound from outside,       *)
(* picks trial points and queries the objects.                             *)
(*   funcs : the list of component objects; Sum(funcs) keeps a reference   *)
(*           to this list, so target 0 of a query is the Sum over it       *)
(*   x     : the caller's trial-point array                                *)
(*   ret   : the last call and what it returned or raised                  *)
(*   last  : the kind of the last step; after a query the caller reads     *)
(*           the result (Resume) before it does anything else              *)
(***************************************************************************)
MaxFuncs == 2

\* the default knot of the constructors, 1.35
DefaultKnot == <<27, 20>>

\* a design matrix, shape (n_samples, n_features) = (2, 1)
XData == Arr(<<2, 1>>, <<QInt(1), QInt(2)>>)

\* responses of shape (2,), (2,), (3,)
YPool1 == {Arr(<<2>>, <<QInt(1), QInt(3)>>),
           Arr(<<2>>, <<QInt(-2), QInt(1)>>),
           Arr(<<3>>, <<QInt(0), QInt(1), QInt(2)>>)}

\* responses of shape (2, 2), (3, 2)
YPool2 == {Arr(<<2, 2>>, <<QInt(1), QInt(3), QInt(-2), QInt(0)>>),
           Arr(<<3, 2>>, <<QInt(1), QInt(0), QInt(0), QInt(1), QInt(2), QInt(2)>>)}

\* trial points of shape (2,), (2,), (1,), (2, 2), (4,)
TrialPool == {zeros(<<2>>), Arr(<<2>>, <<QInt(1), QInt(-1)>>), zeros(<<1>>),
              zeros(<<2, 2>>), zeros(<<4>>)}

StepPool == {QInt(1), <<1, 2>>}

MethodOps == {"eval", "grad", "prox", "conj_prox"}

PropertyOps == {"grad_lip", "is_smooth", "is_proximable"}

LossClasses == {"HuberRegLoss", "HuberRegMultiRespLoss"}

Ret(op, target, step, o) ==
    [op |-> op, target |-> target, step |-> step,
     exc |-> o.exc, val |-> o.val, flag |-> o.flag, lip |-> o.lip]

NoRet == Ret("", 0, QInt(1), Ok(NoArr, Bare("Func"), NoArr))

InitFuncs ==
    /\ funcs = <<>>
    /\ x = zeros(<<2>>)
    /\ ret = NoRet
    /\ last = "init"

\* the caller keeps the object the constructor returned (cap: how many
\* objects the session holds at most)
Construct(cap, o) ==
    /\ last # "query"
    /\ Len(funcs) < cap
    /\ funcs' = IF o.exc = "" THEN Append(funcs, o.self) ELSE funcs
    /\ ret' = Ret("__init__", Len(funcs) + 1, QInt(1), o)
    /\ last' = "new"
    /\ UNCHANGED x
    /\ UNCHANGED checkVars

\* Zero()
NewZero(cap) == Construct(cap, Ok(NoArr, Bare("Zero"), NoArr))

\* an instance of an EntrywiseFunc subclass that defines no rule of its own
NewEntrywise(cap) == Construct(cap, Ok(NoArr, Bare("EntrywiseFunc"), NoArr))

\* whether the collection holds a loss already: an objective is one loss
\* plus penalty terms
HasLoss == \E i \in 1..Len(funcs) : funcs[i].cls \in LossClasses

\* HuberRegLoss(X, y, knot, fit_intercept, lip)
NewHuber(cap, ys, fis, lips) ==
    ~HasLoss /\ \E y \in ys, fit_intercept \in fis, lip \in lips :
        \E l \in get_lin_reg_lip(XData, fit_intercept) :
            Construct(cap, HuberRegLoss__init__(XData, y, DefaultKnot,
                                                fit_intercept, lip, l))

\* HuberRegMultiRespLoss(X, y, knot, fit_intercept, lip)
NewHuberMulti(cap, ys, fis, lips) ==
    ~HasLoss /\ \E y \in ys, fit_intercept \in fis, lip \in lips :
        \E l \in get_lin_reg_lip(XData, fit_intercept) :
            Construct(cap, HuberRegMultiRespLoss__init__(XData, y, DefaultKnot,
                                                         fit_intercept, lip, l))

\* the caller lets go of its objects
Discard ==
    /\ last # "query"
    /\ funcs # <<>>
    /\ funcs' = <<>>
    /\ ret' = NoRet
    /\ last' = "discard"
    /\ UNCHANGED x
    /\ UNCHANGED checkVars

\* the caller assigns f._grad_lip = v on a component (Zero's bound is a
\* constant of the class and is out of reach of this)
SetLip ==
    /\ last # "query"
    /\ \E i \in 1..Len(funcs), v \in {None} \cup LipValues :
         /\ funcs[i].cls # "Zero"
         /\ funcs' = [funcs EXCEPT ![i].has_grad_lip = TRUE, ![i].grad_lip = v]
    /\ ret' = NoRet
    /\ last' = "setlip"
    /\ UNCHANGED x
    /\ UNCHANGED checkVars

\* the caller moves to another trial point
ChooseX(pool) ==
    /\ last # "query"
    /\ \E v \in pool : x' = v
    /\ ret' = NoRet
    /\ last' = "choose"
    /\ UNCHANGED funcs
    /\ UNCHANGED checkVars

\* obj.<op>: target 0 is the Sum over funcs, target i > 0 is funcs[i]
DoCall(op, target, fs, xx, step) ==
    IF target = 0 THEN SumCall(op, SumObj(fs), xx, step)
    ELSE LeafCall(op, fs[target], xx, step)

Query(steps) ==
    \E op \in MethodOps \cup PropertyOps, target \in 0..Len(funcs), step \in steps :
        /\ last # "query"
        /\ op \in {"prox", "conj_prox"} \/ step = QInt(1)
        /\ \E o \in {DoCall(op, target, funcs, x, step)} :
               /\ funcs' = IF target = 0 THEN o.self.funcs
                           ELSE [funcs EXCEPT ![target] = o.self]
               /\ x' = IF op \in MethodOps THEN o.x ELSE x
               /\ ret' = Ret(op, target, step, o)
        /\ last' = "query"
        /\ UNCHANGED checkVars

\* the caller has read the result of its query
Resume ==
    /\ last = "query"
    /\ ret' = NoRet
    /\ last' = "resume"
    /\ UNCHANGED <<funcs, x>>
    /\ UNCHANGED checkVars

InitCheckIdle ==
    /\ pc = "idle"
    /\ which = "grad"
    /\ behavior = "ret"
    /\ force_no_grad = FALSE
    /\ values = <<>>
    /\ idx = 0
    /\ errors = <<>>
    /\ passes = <<>>
    /\ warnings = 0
    /\ outcome = ""

Init == InitFuncs /\ InitCheckIdle

(***************************************************************************)
(* Spec: one function object at a time, over every data set, option and    *)
(* trial point of the pools.                                               *)
(***************************************************************************)
Next ==
    \/ NewZero(1)
    \/ NewEntrywise(1)
    \/ NewHuber(1, YPool1, BOOLEAN, {None} \cup LipValues)
    \/ NewHuberMulti(1, YPool1 \cup YPool2, BOOLEAN, {None} \cup LipValues)
    \/ Discard
    \/ SetLip
    \/ ChooseX(TrialPool)
    \/ Query(StepPool)
    \/ Resume

Spec == Init /\ [][Next]_vars

(***************************************************************************)
(* SpecSum: a collection of up to MaxFuncs components behind one Sum, the  *)
(* losses over one data set.                                               *)
(***************************************************************************)
SumYPool1 == {Arr(<<2>>, <<QInt(1), QInt(3)>>)}

SumYPool2 == {Arr(<<2, 2>>, <<QInt(1), QInt(3), QInt(-2), QInt(0)>>)}

SumTrialPool == {zeros(<<2>>), Arr(<<2>>, <<QInt(1), QInt(-1)>>)}

NextSum ==
    \/ NewZero(MaxFuncs)
    \/ NewEntrywise(MaxFuncs)
    \/ NewHuber(MaxFuncs, SumYPool1, {TRUE}, {None})
    \/ NewHuberMulti(MaxFuncs, SumYPool2, {FALSE}, {None})
    \/ SetLip
    \/ ChooseX(SumTrialPool)
    \/ Query(StepPool)
    \/ Resume

SpecSum == Init /\ [][NextSum]_vars

(***************************************************************************)
(* Properties of the function objects.                                     *)
(***************************************************************************)
\* the query the state holds the result of
Queried(op, target) == last = "query" /\ ret.op = op /\ ret.target = target

\* the bound component f reports
ComponentLip(f) == LeafCall("grad_lip", f, NoArr, QInt(1)).lip

\* C1: whenever Sum.grad_lip has just been read, its value is the sum of the
\* components' current bounds if every component reports one, and None if
\* any component, at any position, reports None; this holds at every read,
\* also after a component's bound was changed from outside.
C1_SumGradLip ==
    Queried("grad_lip", 0) =>
        /\ ret.exc = ""
        /\ ret.lip = IF \A i \in 1..Len(funcs) : ComponentLip(funcs[i]) # None
                     THEN QSum([i \in 1..Len(funcs) |-> ComponentLip(funcs[i])])
                     ELSE None

\* a read of the Sum's bound with a known nonzero bound first and an
\* unknown one behind it
C1_Witness ==
    /\ Queried("grad_lip", 0)
    /\ Len(funcs) >= 2
    /\ ComponentLip(funcs[1]) \in LipValues
    /\ ComponentLip(funcs[Len(funcs)]) = None
    /\ ret.lip = None

\* C2: Sum.is_smooth returns the AND of the components' is_smooth flags
\* (True for no components) and Sum.is_proximable returns False.
C2_SumFlags ==
    /\ Queried("is_smooth", 0) =>
          /\ ret.exc = ""
          /\ ret.flag = (\A i \in 1..Len(funcs) :
                            LeafCall("is_smooth", funcs[i], NoArr, QInt(1)).flag)
    /\ Queried("is_proximable", 0) => (ret.exc = "" /\ ret.flag = FALSE)

\* C3: reading is_smooth or is_proximable of any function object returns a
\* bool and raises nothing.
C3_FlagsNeverRaise ==
    (last = "query" /\ ret.op \in {"is_smooth", "is_proximable"}) => ret.exc = ""

\* C4: a grad(x) that returns, returns an array of the shape of x.
C4_GradShape ==
    (last = "query" /\ ret.op = "grad" /\ ret.exc = "") => ret.val.shape = x.shape

\* C5: a query changes neither the fields of any function object nor the
\* caller's trial point, and the same query asked again in the state it
\* leaves returns the same result.
C5_Stateless ==
    [][last' = "query" =>
          /\ funcs' = funcs
          /\ x' = x
          /\ ret' = Ret(ret'.op, ret'.target, ret'.step,
                        DoCall(ret'.op, ret'.target, funcs', x', ret'.step))]_vars

\* the gradient of a Sum over a Zero and a loss, at a nonzero trial point
C5_Witness ==
    /\ Queried("grad", 0)
    /\ ret.exc = ""
    /\ Len(funcs) = 2
    /\ \E i \in 1..2 : funcs[i].cls = "Zero"
    /\ \E i \in 1..2 : funcs[i].cls \in LossClasses
    /\ x # zeros_like(x)

\* C6: every loss object that exists was built from X and y with the same
\* number of rows.
C6_RowsChecked ==
    \A i \in 1..Len(funcs) :
        funcs[i].cls \in LossClasses => funcs[i].X.shape[1] = funcs[i].y.shape[1]

\* the Sum's answer to op over the collection fs
SumRet(op, fs, step) == Ret(op, 0, step, DoCall(op, 0, fs, x, step))

\* C9: Zero evaluates to 0, has an all-zero gradient of the shape of x, has
\* the identity as prox, reports the bound 0 and is smooth; and appending a
\* Zero to the collection of a Sum changes none of its eval(x), grad_lip
\* and is_smooth.
C9_ZeroIdentity ==
    /\ \A i \in 1..Len(funcs) :
          (last = "query" /\ ret.target = i /\ funcs[i].cls = "Zero") =>
              /\ ret.exc = ""
              /\ ret.op = "eval" => ret.val = Scalar(QInt(0))
              /\ ret.op = "grad" => ret.val = zeros(x.shape)
              /\ ret.op = "prox" => ret.val = x
              /\ ret.op = "grad_lip" => ret.lip = QInt(0)
              /\ ret.op = "is_smooth" => ret.flag
    /\ \A op \in {"eval", "grad_lip", "is_smooth"} :
          Queried(op, 0) => ret = SumRet(op, Append(funcs, Bare("Zero")), ret.step)

\* the value of a Sum over a loss has been computed and is not zero
C9_Witness ==
    /\ Queried("eval", 0)
    /\ ret.exc = ""
    /\ \E i \in 1..Len(funcs) : funcs[i].cls \in LossClasses
    /\ ret.val # Scalar(QInt(0))

\* huber_grad(z; knot) as the claim defines it
ClaimHuberGrad(z, knot) ==
    IF QLe(QAbs(z), knot) THEN z ELSE QMul(knot, QSign(z))

\* the mean over the samples of huber_grad(y_i; knot)
MeanHuberGradOfY(f) ==
    QDiv(QSum([i \in 1..Len(f.y.data) |-> ClaimHuberGrad(f.y.data[i], f.knot)]),
         QInt(Len(f.y.data)))

\* the gradient of a HuberRegLoss with an intercept, built from X and y of
\* the same number of rows, has been taken at the all-zero coefficients
C10_Case ==
    /\ Queried("grad", 1)
    /\ funcs[1].cls = "HuberRegLoss"
    /\ funcs[1].fit_intercept
    /\ funcs[1].y.shape = <<funcs[1].X.shape[1]>>
    /\ x = zeros(<<funcs[1].X.shape[2] + 1>>)

\* C10 as stated: the gradient has n_features + 1 entries and the first is
\* the mean of huber_grad(y_i; knot).
C10_Original ==
    C10_Case =>
        /\ ret.exc = ""
        /\ ret.val.shape = <<funcs[1].X.shape[2] + 1>>
        /\ ret.val.data[1] = MeanHuberGradOfY(funcs[1])

\* C10 amended: the gradient has n_features + 1 entries, the first is the
\* mean of huber_grad(-y_i; knot), which is minus the mean of
\* huber_grad(y_i; knot), the residual at zero coefficients being -y; the
\* entries behind it are the coefficient gradient (1/n) X^T huber_grad(-y).
C10_InterceptGradAtZero ==
    C10_Case =>
        LET f == funcs[1]
            n == f.X.shape[1]
        IN  /\ ret.exc = ""
            /\ ret.val.shape = <<f.X.shape[2] + 1>>
            /\ ret.val.data[1] = QNeg(MeanHuberGradOfY(f))
            /\ \A j \in 1..f.X.shape[2] :
                  ret.val.data[j + 1] =
                      QDiv(QSum([i \in 1..n |->
                              QMul(At2(f.X, i, j),
                                   ClaimHuberGrad(QNeg(f.y.data[i]), f.knot))]),
                           QInt(n))

\* the case, with a response whose huber gradients do not cancel
C10_Witness == C10_Case /\ ret.exc = "" /\ MeanHuberGradOfY(funcs[1]) # QInt(0)

(***************************************************************************)
(* The verification engine: check_grad_impl and check_prox_impl, one step  *)
(* per trial point.  What scipy computes at a trial point is an input: a   *)
(* point is given as the discrepancy found there, in units of 1e-5         *)
(* (scipy's check_grad error for the gradient check; for the prox check    *)
(* the distance of the analytic prox from the numeric one, the trial       *)
(* points having one entry and a baseline small enough for rtol to add     *)
(* less than a unit).  The checked function is one that implements eval,   *)
(* grad and prox, such as Zero.                                            *)
(*   pc            : "idle", "loop" (between trial points), "done"         *)
(*   which         : "grad" for check_grad_impl, "prox" for check_prox_impl*)
(*   behavior      : the mode argument                                     *)
(*   force_no_grad : opt_kws of check_prox_impl holds force_no_grad=True   *)
(*   values        : the trial points, as their discrepancies              *)
(*   idx           : the number of trial points whose check was started    *)
(*   errors, passes: the lists the loop appends to                         *)
(*   warnings      : the number of warnings emitted by the call            *)
(*   outcome       : "returned" (errors, passes), "none" (returned None)   *)
(*                   or the exception that ended the call                  *)
(***************************************************************************)
MaxPoints == 2

MaxErr == 2

\* atol = 1e-05, the default of both checks, in units of 1e-5
Atol == 1

Modes == {"ret", "error", "warn"}

\* the mode values a caller may pass
BehaviorPool == Modes \cup {"raise"}

RECURSIVE SeqsUpTo(_, _)
SeqsUpTo(S, n) ==
    IF n = 0 THEN {<<>>}
    ELSE LET shorter == SeqsUpTo(S, n - 1)
         IN  shorter \cup {Append(v, e) : v \in {w \in shorter : Len(w) = n - 1}, e \in S}

\* np.allclose(0, err, rtol=0, atol=atol)
allclose(err, atol) == err <= atol

\* whether the function object has a method capabilities: Func defines
\* none (its definition is commented out) and no class adds one
HasCapabilities == FALSE

\* the entry of the prox check's errors list for a discrepancy d
ProxErrs(d) == [mad |-> d, max |-> d, l2 |-> d]

\* the call: the assert on behavior, then the empty lists
CallCheck ==
    /\ pc = "idle"
    /\ \E w \in {"grad", "prox"}, b \in BehaviorPool, f \in BOOLEAN,
          vs \in SeqsUpTo(0..MaxErr, MaxPoints) :
         /\ w = "grad" => f = FALSE
         /\ which' = w
         /\ behavior' = b
         /\ force_no_grad' = f
         /\ values' = vs
         /\ IF b \in Modes
            THEN pc' = "loop" /\ outcome' = ""
            ELSE pc' = "done" /\ outcome' = "AssertionError"
    /\ idx' = 0
    /\ errors' = <<>>
    /\ passes' = <<>>
    /\ warnings' = 0
    /\ UNCHANGED funcVars

\* one iteration of the loop of check_grad_impl
GradPoint ==
    /\ pc = "loop"
    /\ which = "grad"
    /\ idx < Len(values)
    /\ LET err == values[idx + 1]
           did_pass == allclose(err, Atol)
       IN  /\ errors' = Append(errors, err)
           /\ passes' = Append(passes, did_pass)
           /\ IF behavior = "error" /\ ~did_pass
              THEN pc' = "done" /\ outcome' = "AssertionError"
              ELSE pc' = "loop" /\ outcome' = outcome
    /\ idx' = idx + 1
    /\ UNCHANGED <<which, behavior, force_no_grad, values, warnings>>
    /\ UNCHANGED funcVars

\* one iteration of the loop of check_prox_impl: func.prox, then
\* numeric_prox, which asks func.capabilities(x) unless force_no_grad
ProxPoint ==
    /\ pc = "loop"
    /\ which = "prox"
    /\ idx < Len(values)
    /\ IF ~force_no_grad /\ ~HasCapabilities
       THEN /\ pc' = "done"
            /\ outcome' = "AttributeError"
            /\ UNCHANGED <<errors, passes>>
       ELSE LET d == values[idx + 1]
                did_pass == allclose(d, Atol)
            IN  IF behavior = "error" /\ ~did_pass
                THEN /\ pc' = "done"
                     /\ outcome' = "AssertionError"
                     /\ UNCHANGED <<errors, passes>>
                ELSE /\ pc' = "loop"
                     /\ outcome' = outcome
                     /\ errors' = Append(errors, ProxErrs(d))
                     /\ passes' = Append(passes, did_pass)
    /\ idx' = idx + 1
    /\ UNCHANGED <<which, behavior, force_no_grad, values, warnings>>
    /\ UNCHANGED funcVars

\* sum(~passes) for passes = np.array(passes)
n_fails_of(ps) == Cardinality({i \in 1..Len(ps) : ~ps[i]})

\* after the loop: passes = np.array(passes); n_fails = sum(~passes), which
\* is a TypeError on the float64 array that np.array([]) is; then the
\* return of 'ret' or the warning of 'warn'
AfterLoop ==
    /\ pc = "loop"
    /\ idx = Len(values)
    /\ pc' = "done"
    /\ IF passes = <<>>
       THEN outcome' = "TypeError" /\ warnings' = warnings
       ELSE IF behavior = "ret"
            THEN outcome' = "returned" /\ warnings' = warnings
            ELSE /\ outcome' = "none"
                 /\ warnings' = IF n_fails_of(passes) > 0 /\ behavior = "warn"
                                THEN warnings + 1 ELSE warnings
    /\ UNCHANGED <<which, behavior, force_no_grad, values, idx, errors, passes>>
    /\ UNCHANGED funcVars

\* the caller is back and may call again
Again ==
    /\ pc = "done"
    /\ pc' = "idle"
    /\ UNCHANGED <<which, behavior, force_no_grad, values, idx, errors, passes,
                   warnings, outcome>>
    /\ UNCHANGED funcVars

NextCheck ==
    \/ CallCheck
    \/ GradPoint
    \/ ProxPoint
    \/ AfterLoop
    \/ Again

SpecCheck == Init /\ [][NextCheck]_vars

(***************************************************************************)
(* Properties of the verification engine.                                  *)
(***************************************************************************)
\* the trial points that fail the tolerance
Failing == {i \in 1..Len(values) : ~allclose(values[i], Atol)}

FirstFailing == CHOOSE i \in Failing : \A j \in Failing : i <= j

\* C7: check_grad_impl rejects a mode outside 'ret', 'error', 'warn' before
\* any point is checked; in 'ret' mode it returns one error and one pass
\* flag per trial point, in order; in 'error' mode it raises at the first
\* failing point and checks none behind it; in 'warn' mode it checks every
\* point, warns exactly once if and only if a point failed, and does not
\* raise.
C7_GradCheckModes ==
    (pc = "done" /\ which = "grad") =>
        /\ behavior \notin Modes => (outcome = "AssertionError" /\ idx = 0)
        /\ behavior = "ret" =>
              /\ outcome = "returned"
              /\ errors = values
              /\ passes = [i \in 1..Len(values) |-> allclose(values[i], Atol)]
        /\ behavior = "error" =>
              IF Failing # {}
              THEN outcome = "AssertionError" /\ idx = FirstFailing
              ELSE outcome = "none" /\ idx = Len(values)
        /\ behavior = "warn" =>
              /\ outcome = "none"
              /\ idx = Len(values)
              /\ warnings = IF Failing # {} THEN 1 ELSE 0

\* C8: check_prox_impl in 'ret' mode with default options raises nothing and
\* returns one discrepancy record and one pass flag per trial point.
C8_ProxCheckReturns ==
    (pc = "done" /\ which = "prox" /\ behavior = "ret" /\ ~force_no_grad) =>
        /\ outcome = "returned"
        /\ Len(errors) = Len(values)
        /\ Len(passes) = Len(values)

====
